---- MODULE Spec2Model ----
(***************************************************************************)
(* Model of the dataset scan engine of cpp/src/arrow/dataset/scanner.cc:   *)
(* ScanOptions, ScannerBuilder, Scanner::ToTable and TableAssemblyState.   *)
(***************************************************************************)
EXTENDS Integers, Sequences, FiniteSets, TLC

\* ------------------------------------------------------------------ bounds
\* Most scan tasks one ToTable call enumerates.
MaxTasks == 3
\* Most record batches one scan task yields.
MaxBatches == 2
\* Threads of the CPU thread pool: most task closures running at once.
MaxWorkers == 2

\* Most fields of a schema.
MaxFields == 2
\* Most column names one Project call is given.
MaxColumns == 2
\* Largest batch size a BatchSize call is given; the smallest is its negation.
MaxBatchSize == 1
\* Most Finish() calls on one builder.
MaxFinishes == 2
\* Most fragments of a dataset.
MaxFragments == 2

\* ------------------------------------------------------ ScannerBuilder state
VARIABLES
  use_threads,      \* scan_context_->use_threads, shared with every Scanner
  schema_,          \* ScannerBuilder::schema(): the dataset's or fragment's
  has_projection_,  \* ScannerBuilder::has_projection_
  project_columns_, \* ScannerBuilder::project_columns_
  scan_options_,    \* *ScannerBuilder::scan_options_
  status,           \* the Status the last builder call returned
  scanner,          \* the Scanner the last Finish() made, or NoScanner
  earlier,          \* the Scanner the Finish() before that made, or NoScanner
  fragments_touched \* a fragment was requested from a Scanner's iterators

\* ------------------------------------------------- what a Scanner scans
VARIABLES
  fragment_,        \* ScannerBuilder::fragment_, or NoFragment
  dataset_,         \* ScannerBuilder::dataset_, or NoDataset
  scan_task_it,     \* the iterator a Scanner::Scan() call returned, or NoIterator
  dataset_consulted \* Dataset::GetFragments was invoked

sVars == <<fragment_, dataset_, scan_task_it, dataset_consulted>>

bVars == <<schema_, has_projection_, project_columns_, scan_options_, status, scanner,
           earlier>>

\* ------------------------------------------------------------- ToTable state
VARIABLES
  pc,             \* position of the thread that called Scanner::ToTable
  second,         \* TRUE in the Scanner's second ToTable call
  elems,          \* elements the scan-task iterator has yielded in this call
  first_elems,    \* elements it yielded in the first call (the Scanner's tasks)
  first_ret,      \* what the first ToTable call returned
  first_mode,     \* task group the first call used
  first_reordered,\* the first call's closures stored out of order
  record_batches, \* the batches of an in-memory Scanner, or NoBatches
  group_mode,     \* task group made by scan_context_->TaskGroup()
  group_status,   \* the task group's status: OK or the first error
  scan_task_id,   \* the loop's counter
  closure_id,     \* k-th closure appended -> the id it captured
  task_pc,        \* id -> position of the closure appended with that id
  task_status,    \* id -> Status the closure is about to return
  local,          \* id -> the closure's local RecordBatchVector
  batches,        \* state->batches
  mutex,          \* state->mutex: its owner, or Free
  holders,        \* owners of the shared_ptr<TableAssemblyState>
  state_live,     \* the TableAssemblyState object has not been destroyed
  dangling,       \* a closure touched the state after it was destroyed
  reordered,      \* some Emplace stored below an index already stored
  finish_called,  \* task_group->Finish() was called in this call
  status_at_return, \* the task group's status when ToTable returned
  ret             \* the Result ToTable returned, or NoResult

\* What the second ToTable call keeps of the first, and the Scanner's source.
callVars == <<second, first_elems, first_ret, first_mode, first_reordered, record_batches>>

ttVars == <<pc, callVars, elems, group_mode, group_status, scan_task_id, closure_id, task_pc, task_status, local,
            batches, mutex, holders, state_live, dangling, reordered,
            finish_called, status_at_return, ret>>

vars == <<use_threads, bVars, fragments_touched, sVars, ttVars>>

\* --------------------------------------------------------------- values
\* An owner that is no task id.
NoTask == 0 - 1
Free == NoTask
NoResult == [kind |-> "none"]
OK == [ok |-> TRUE]
\* The shared_ptr held by the local variable of ToTable.
ToTableFrame == NoTask

\* An element of Iterator<Result<shared_ptr<ScanTask>>>: a scan task that
\* yields n batches, a scan task whose Execute or whose batch iterator fails,
\* or an error.
TaskElem(n, fail) == [kind |-> "task", n |-> n, fail |-> fail]
ErrorElem == [kind |-> "error", n |-> 0, fail |-> "none"]
Elems ==
  {TaskElem(n, "none") : n \in 0..MaxBatches}
    \cup {TaskElem(0, "execute"), TaskElem(0, "drain"), ErrorElem}

TaskError(id, at) == [ok |-> FALSE, from |-> "task", id |-> id, at |-> at]
IterError(k) == [ok |-> FALSE, from |-> "iterator", id |-> k, at |-> "next"]

\* The j-th record batch of the task enumerated at position id.
Batch(id, j) == <<id, j>>

\* The record batches an in-memory Scanner is given, and the lists of them.
RecordBatches == {"x", "y"}
NoBatches == <<"none">>
BatchLists == UNION {[1..k -> RecordBatches] : k \in 0..MaxBatches}

\* An InMemoryScanTask holding record_batches_.
InMemoryScanTask(given) ==
  [kind |-> "task", n |-> Len(given), fail |-> "none", record_batches_ |-> given]

\* A vector iterator with one InMemoryScanTask for each batch.
ScanTaskPerRecordBatch(given) ==
  [k \in 1..Len(given) |-> InMemoryScanTask(<<given[k]>>)]

\* ScanTaskIteratorFromRecordBatch: a vector iterator over one InMemoryScanTask
\* that holds all the batches given.
ScanTaskIteratorFromRecordBatch(given) == <<InMemoryScanTask(given)>>

\* InMemoryScanTask::Execute: MakeVectorIterator(record_batches_).
InMemoryExecute(e) == [ok |-> TRUE, it |-> e.record_batches_, bad |-> FALSE]

\* scan_task->Execute(): an error, or an iterator over the task's batches.
Execute(e, id) ==
  IF "record_batches_" \in DOMAIN e THEN InMemoryExecute(e)
  ELSE IF e.fail = "execute" THEN TaskError(id, "execute")
  ELSE [ok |-> TRUE, it |-> [j \in 1..e.n |-> Batch(id, j)], bad |-> e.fail = "drain"]

\* batch_it.ToVector(): the iterator's batches in order, or its error.
ToVector(r, id) ==
  IF r.bad THEN TaskError(id, "drain") ELSE [ok |-> TRUE, vec |-> r.it]


\* ------------------------------------------------- schemas and expressions
Field(n, t) == [name |-> n, type |-> t]
Names == {"a", "b"}
Fields == {Field(n, "int64") : n \in Names}
LiteralTypes == {"int64", "utf8"}

\* Sequences over S of length at most n.
SeqUpTo(S, n) == UNION {[1..k -> S] : k \in 0..n}

Schemas == SeqUpTo(Fields, MaxFields)
ColumnLists == SeqUpTo(Names, MaxColumns)

\* Names of a schema's fields, in order.
FieldNames(schema) == [k \in 1..Len(schema) |-> schema[k].name]

\* FieldRef::FindAll: the positions of the fields with that name.
FindAll(name, schema) == {k \in 1..Len(schema) : schema[k].name = name}

NoMatch(name) == [ok |-> FALSE, code |-> "Invalid", what |-> "no match for FieldRef"]
MultipleMatches(name) ==
  [ok |-> FALSE, code |-> "Invalid", what |-> "multiple matches for FieldRef"]

\* FieldRef::FindOne: the one position, or an error.
FindOne(name, schema) ==
  LET all == FindAll(name, schema) IN
    IF all = {} THEN NoMatch(name)
    ELSE IF Cardinality(all) > 1 THEN MultipleMatches(name)
    ELSE [ok |-> TRUE, index |-> CHOOSE k \in all : TRUE]

NameResolutionError ==
  [ok |-> FALSE, code |-> "NameResolution", what |-> "field not found or not unique"]

\* Schema::CanReferenceFieldsByNames: every name resolves to one field.
CanReferenceFieldsByNames(schema, columns) ==
  IF \A k \in 1..Len(columns) : Cardinality(FindAll(columns[k], schema)) = 1
  THEN OK ELSE NameResolutionError

\* SchemaFromColumnNames: the named fields of the input, in request order.
RECURSIVE SchemaFromColumnNames(_, _)
SchemaFromColumnNames(input, column_names) ==
  IF column_names = <<>> THEN <<>>
  ELSE LET one == FindOne(Head(column_names), input)
           rest == SchemaFromColumnNames(input, Tail(column_names))
       IN IF one.ok THEN <<input[one.index]>> \o rest ELSE rest

\* Expressions: a literal, a field reference, a call on arguments.  index is 0
\* in a reference that is not bound; bound is FALSE in a call that is not.
Literal(t) == [kind |-> "literal", type |-> t]
FieldRef(n) == [kind |-> "field_ref", name |-> n, index |-> 0, type |-> "unbound"]
Call(args) == [kind |-> "call", arguments |-> args, bound |-> FALSE]
LiteralTrue == Literal("bool")

Leaves == {FieldRef(n) : n \in Names} \cup {Literal(t) : t \in LiteralTypes}
Expressions ==
  {LiteralTrue} \cup {Call(<<x, y>>) : x \in {FieldRef(n) : n \in Names}, y \in Leaves}

\* FieldsInExpression: the names the expression refers to, left to right.
RECURSIVE FieldsInArguments(_)
FieldsInExpression(expr) ==
  IF expr.kind = "literal" THEN <<>>
  ELSE IF expr.kind = "field_ref" THEN <<expr.name>>
  ELSE FieldsInArguments(expr.arguments)
FieldsInArguments(args) ==
  IF args = <<>> THEN <<>>
  ELSE (IF Head(args).kind = "literal" THEN <<>> ELSE <<Head(args).name>>)
         \o FieldsInArguments(Tail(args))

TypeError == [ok |-> FALSE, code |-> "TypeError", what |-> "no kernel for argument types"]

\* Binding a leaf: a reference gets its field's position and type.
BindLeaf(x, schema) ==
  IF x.kind = "literal" THEN x
  ELSE LET one == FindOne(x.name, schema) IN
         [x EXCEPT !.index = one.index, !.type = schema[one.index].type]

\* Expression::Bind(schema): the bound expression, or an error when a
\* reference does not resolve or a call's argument types do not agree.
Bind(expr, schema) ==
  IF expr.kind = "literal" THEN [ok |-> TRUE, value |-> expr]
  ELSE IF \E k \in 1..Len(FieldsInExpression(expr)) :
            ~FindOne(FieldsInExpression(expr)[k], schema).ok
  THEN NoMatch("")
  ELSE IF expr.kind = "field_ref"
  THEN [ok |-> TRUE, value |-> BindLeaf(expr, schema)]
  ELSE LET args == [k \in 1..Len(expr.arguments) |-> BindLeaf(expr.arguments[k], schema)]
       IN IF \A j, k \in 1..Len(args) : args[j].type = args[k].type
          THEN [ok |-> TRUE,
                value |-> [kind |-> "call", arguments |-> args, bound |-> TRUE]]
          ELSE TypeError

\* --------------------------------------------------------------- ScanOptions
\* The batch size of ScanOptions that no BatchSize call has set.
DefaultBatchSize == MaxBatchSize + 1

\* ScanOptions::Make(schema): the projector is derived from the schema.
MakeScanOptions(schema) ==
  [projector |-> schema, filter |-> LiteralTrue, batch_size |-> DefaultBatchSize]

\* ScanOptions::schema().
Schema(options) == options.projector

\* A ReplaceSchema that copies nothing into the new options.
ReplaceSchemaFresh(options, schema) == MakeScanOptions(schema)

\* ScanOptions::ReplaceSchema: new options on the schema; filter and batch
\* size are copied.
ReplaceSchema(options, schema) ==
  [MakeScanOptions(schema) EXCEPT !.filter = options.filter,
                                  !.batch_size = options.batch_size]

\* A MaterializedFields that lists the filter's references first.
MaterializedFilterFirst(options) ==
  FieldsInExpression(options.filter) \o FieldNames(Schema(options))

\* A MaterializedFields that lists the schema's fields only.
MaterializedSchemaOnly(options) == FieldNames(Schema(options))

\* ScanOptions::MaterializedFields.
MaterializedFields(options) ==
  FieldNames(Schema(options)) \o FieldsInExpression(options.filter)

\* ------------------------------------------------- fragments and datasets
\* A fragment and its partition expression: "all" can satisfy every filter,
\* "none" only the filter that is literally true.
Partitions == {"all", "none"}
Fragment(k, partition) == [id |-> k, partition |-> partition]
NoFragment == Fragment(NoTask, "none")
SingleFragments == {Fragment(0, partition) : partition \in Partitions}

Dataset(fragments) == [null |-> FALSE, fragments |-> fragments]
NoDataset == [null |-> TRUE, fragments |-> <<>>]
Datasets ==
  UNION {{Dataset([k \in 1..n |-> Fragment(k, ps[k])]) : ps \in [1..n -> Partitions]} :
           n \in 0..MaxFragments}

\* MakeVectorIterator(FragmentVector{...}): an iterator over the vector.
MakeVectorIterator(v) == [kind |-> "vector", items |-> v]

\* GetFragmentsFromDatasets({dataset}, filter): an iterator that asks the
\* dataset for its fragments only when a fragment is requested.
GetFragmentsFromDatasets(dataset, filter) ==
  [kind |-> "datasets", dataset |-> dataset, filter |-> filter]

\* Dataset::GetFragments(filter): the fragments the filter does not exclude.
DatasetGetFragments(dataset, filter) ==
  SelectSeq(dataset.fragments, LAMBDA f : filter.kind = "literal" \/ f.partition = "all")

\* The fragments the iterator yields once it is advanced.
Fragments(it) ==
  IF it.kind = "vector" THEN it.items ELSE DatasetGetFragments(it.dataset, it.filter)

\* A GetFragments that does not look at fragment_.
GetFragmentsOfDataset(sc) == GetFragmentsFromDatasets(sc.dataset_, sc.scan_options.filter)

\* Scanner::GetFragments on the Scanner sc.
GetFragments(sc) ==
  IF sc.fragment_ # NoFragment
  THEN MakeVectorIterator(<<sc.fragment_>>)
  ELSE GetFragmentsFromDatasets(sc.dataset_, sc.scan_options.filter)

\* The ScanTask that GetScanTaskIterator makes of a fragment.
ScanTaskOf(f) == [kind |-> "task", fragment |-> f]

NoIterator == [made |-> FALSE]

\* GetScanTaskIterator(fragment_it, options, context): nothing is yielded yet.
GetScanTaskIterator(fragment_it) ==
  [made |-> TRUE, fragments |-> fragment_it, yielded |-> <<>>, done |-> FALSE]

\* ------------------------------------------------------------ ScannerBuilder
NoScanner == [made |-> FALSE]

\* The fragment Finish() gives the Scanner: fragment_ when dataset_ is null.
ScannerFragment(dataset, fragment) == IF dataset = NoDataset THEN fragment ELSE NoFragment

\* The address of the ScanOptions object that scan_options_ points to; the
\* objects that Finish() makes are at 1, 2, ...
BuilderOptions == 0

\* An address no Scanner's options pointer holds.
NewOptions ==
  1 + (IF scanner.made THEN scanner.options
       ELSE IF earlier.made THEN earlier.options ELSE BuilderOptions)

\* What a Scanner reads through its options pointer once the builder has
\* written to *scan_options_: the new contents if it points there.
Seen(sc, options) ==
  IF sc.made /\ sc.options = BuilderOptions
  THEN [sc EXCEPT !.scan_options = options]
  ELSE sc

\* The first reference of the filter that FindOne rejects, if any.
FirstUnresolved(refs, schema) ==
  LET bad == {k \in 1..Len(refs) : ~FindOne(refs[k], schema).ok} IN
    IF bad = {} THEN OK
    ELSE FindOne(refs[CHOOSE k \in bad : \A j \in bad : k <= j], schema)

\* A schema() that gives the projected schema once a projection is recorded.
NarrowedSchema ==
  IF has_projection_ /\ project_columns_ # <<>>
  THEN SchemaFromColumnNames(schema_, project_columns_)
  ELSE schema_

\* ScannerBuilder::schema(): the fragment's schema or the dataset's, the one
\* the builder was constructed over.
BuilderSchema == schema_

\* A Project that records the columns unchecked.
ProjectUnchecked(columns) ==
  /\ pc = "idle"
  /\ has_projection_' = TRUE
  /\ project_columns_' = columns
  /\ status' = OK
  /\ UNCHANGED <<use_threads, schema_, scan_options_, scanner, earlier, fragments_touched,
                 ttVars, sVars>>

\* ScannerBuilder::Project.
Project(columns) ==
  /\ pc = "idle"
  /\ LET st == CanReferenceFieldsByNames(BuilderSchema, columns) IN
       IF ~st.ok
       THEN /\ status' = st
            /\ UNCHANGED <<has_projection_, project_columns_>>
       ELSE /\ has_projection_' = TRUE
            /\ project_columns_' = columns
            /\ status' = OK
  /\ UNCHANGED <<use_threads, schema_, scan_options_, scanner, earlier, fragments_touched,
                 ttVars, sVars>>

\* A Filter that binds unchecked and stores the expression as given on error.
FilterUnchecked(filter) ==
  /\ pc = "idle"
  /\ LET b == Bind(filter, schema_) IN
       /\ scan_options_' = [scan_options_ EXCEPT !.filter = IF b.ok THEN b.value ELSE filter]
       /\ status' = IF b.ok THEN OK ELSE b
  /\ scanner' = Seen(scanner, scan_options_')
  /\ earlier' = Seen(earlier, scan_options_')
  /\ UNCHANGED <<use_threads, schema_, has_projection_, project_columns_,
                 fragments_touched, ttVars, sVars>>

\* ScannerBuilder::Filter.
Filter(filter) ==
  /\ pc = "idle"
  /\ LET st == FirstUnresolved(FieldsInExpression(filter), BuilderSchema) IN
       IF ~st.ok
       THEN /\ status' = st
            /\ UNCHANGED scan_options_
       ELSE LET b == Bind(filter, BuilderSchema) IN
              IF ~b.ok
              THEN /\ status' = b
                   /\ UNCHANGED scan_options_
              ELSE /\ scan_options_' = [scan_options_ EXCEPT !.filter = b.value]
                   /\ status' = OK
  /\ scanner' = Seen(scanner, scan_options_')
  /\ earlier' = Seen(earlier, scan_options_')
  /\ UNCHANGED <<use_threads, schema_, has_projection_, project_columns_,
                 fragments_touched, ttVars, sVars>>

BatchSizeError ==
  [ok |-> FALSE, code |-> "Invalid", what |-> "BatchSize must be greater than 0"]

\* A check that lets 0 through.
BatchSizeNegative(batch_size) == batch_size < 0

\* if (batch_size <= 0).
BatchSizeInvalid(batch_size) == batch_size <= 0

\* ScannerBuilder::BatchSize.
BatchSize(batch_size) ==
  /\ pc = "idle"
  /\ IF BatchSizeInvalid(batch_size)
     THEN /\ status' = BatchSizeError
          /\ UNCHANGED scan_options_
     ELSE /\ scan_options_' = [scan_options_ EXCEPT !.batch_size = batch_size]
          /\ status' = OK
  /\ scanner' = Seen(scanner, scan_options_')
  /\ earlier' = Seen(earlier, scan_options_')
  /\ UNCHANGED <<use_threads, schema_, has_projection_, project_columns_,
                 fragments_touched, ttVars, sVars>>

\* A Finish that narrows to project_columns_ whether or not Project was called.
FinishIgnoresFlag(options, has_projection, columns, schema) ==
  ReplaceSchema(options, SchemaFromColumnNames(schema, columns))

\* The options ScannerBuilder::Finish gives the Scanner.
FinishOptions(options, has_projection, columns, schema) ==
  IF has_projection /\ columns # <<>>
  THEN ReplaceSchema(options, SchemaFromColumnNames(schema, columns))
  ELSE options

\* A Finish that hands out scan_options_ itself when it does not narrow.
FinishSharesPointer(has_projection, columns, fresh) ==
  IF has_projection /\ columns # <<>> THEN fresh ELSE BuilderOptions

\* Where the Scanner's options are: ReplaceSchema() and
\* make_shared<ScanOptions>(*scan_options_) both make a new object.
FinishPointer(has_projection, columns, fresh) == fresh

\* The builder's ScanContext object, by address.
BuilderContext == 0

\* A Finish that hands the Scanner a copy of the scan context.
FinishCopiesContext(context, fresh) == fresh

\* The ScanContext the Scanner is constructed with: scan_context_ itself.
FinishContext(context, fresh) == context

\* What scan_context_->use_threads reads through a Scanner's pointer: the
\* builder's flag if it points at the builder's context, else what the
\* Scanner's own context held when it was made.
ScannerUseThreads(sc) ==
  IF sc.scan_context = BuilderContext THEN use_threads ELSE sc.use_threads

\* ScannerBuilder::Finish: a Scanner with its own options.
Finish ==
  /\ pc = "idle"
  /\ scanner' = [made |-> TRUE,
                 scan_options |-> FinishOptions(scan_options_, has_projection_,
                                                project_columns_, schema_),
                 options |-> FinishPointer(has_projection_, project_columns_, NewOptions),
                 scan_context |-> FinishContext(BuilderContext, NewOptions),
                 use_threads |-> use_threads,
                 fragment_ |-> ScannerFragment(dataset_, fragment_),
                 dataset_ |-> dataset_]
  /\ earlier' = scanner
  /\ status' = OK
  /\ UNCHANGED <<use_threads, schema_, has_projection_, project_columns_, scan_options_,
                 fragments_touched, ttVars, sVars>>

\* The builder as its constructor leaves it, over the given schema:
\* ScanOptions::Make(schema), then Filter(literal(true)).
Constructed(schema) ==
  /\ schema_ = schema
  /\ has_projection_ = FALSE
  /\ project_columns_ = <<>>
  /\ scan_options_ = [MakeScanOptions(schema) EXCEPT
                        !.filter = Bind(LiteralTrue, schema).value]
  /\ status = OK
  /\ use_threads = FALSE

\* A builder over the schema (a, b) that has made a Scanner.
InitBuilt ==
  /\ Constructed(<<Field("a", "int64"), Field("b", "int64")>>)
  /\ dataset_ = Dataset(<<>>)
  /\ fragment_ = NoFragment
  /\ earlier = NoScanner
  /\ scanner = [made |-> TRUE,
                scan_options |-> FinishOptions(scan_options_, has_projection_,
                                               project_columns_, schema_),
                options |-> FinishPointer(has_projection_, project_columns_,
                                          BuilderOptions + 1),
                scan_context |-> FinishContext(BuilderContext, BuilderOptions + 1),
                use_threads |-> use_threads,
                fragment_ |-> ScannerFragment(dataset_, fragment_),
                dataset_ |-> dataset_]

\* ------------------------------------------------- task group and assembly
\* ScanContext::TaskGroup(): threaded on the CPU pool, or serial.
TaskGroup(threads) == IF threads THEN "threaded" ELSE "serial"

\* A flattening that stops at the first empty list.
RECURSIVE FlattenUntilEmpty(_)
FlattenUntilEmpty(nested_batches) ==
  IF nested_batches = <<>> \/ Head(nested_batches) = <<>> THEN <<>>
  ELSE Head(nested_batches) \o FlattenUntilEmpty(Tail(nested_batches))

\* The nested vector's batches, group after group.
RECURSIVE FlattenRecordBatchVector(_)
FlattenRecordBatchVector(nested_batches) ==
  IF nested_batches = <<>> THEN <<>>
  ELSE Head(nested_batches) \o FlattenRecordBatchVector(Tail(nested_batches))

\* An id that is never advanced.
RepeatedId(n) == 0

\* The value of ++scan_task_id.
PreIncrement(n) == n + 1

\* auto id = scan_task_id++: the value the closure captures.
PostIncrement(n) == n

\* A resize to exactly position + 1 slots, also when that is fewer.
ResizeExact(bs, position) ==
  [k \in 1..(position + 1) |-> IF k <= Len(bs) THEN bs[k] ELSE <<>>]

\* A resize that grows by one slot only.
ResizeByOne(bs, position) ==
  IF Len(bs) <= position THEN Append(bs, <<>>) ELSE bs

\* batches.resize(position + 1) when batches.size() <= position.
Resize(bs, position) ==
  IF Len(bs) <= position
  THEN bs \o [k \in 1..(position + 1 - Len(bs)) |-> <<>>]
  ELSE bs

\* An Emplace that stores in completion order.
EmplaceAtEnd(bs, b, position) == Append(bs, b)

\* TableAssemblyState::Emplace, past the lock: grow, then store at position.
Emplace(bs, b, position) ==
  [Resize(bs, position) EXCEPT ![position + 1] = b]

\* A mutex that is never granted.
LockNeverGranted(m) == FALSE

\* An Emplace that takes no lock.
LockUnguarded(m) == TRUE

\* std::lock_guard<std::mutex>: entered only while no one owns the mutex.
CanLock(m) == m = Free

\* A closure that captures the state by reference.
CaptureByReference(h, id) == h

\* The closure [state, id, scan_task] holds its own shared_ptr to the state.
CaptureState(h, id) == h \cup {id}

\* A Finish whose Status is dropped.
IgnoreStatus(st) == FALSE

\* A check that returns on success and goes on after a failure.
ReturnIfOK(st) == st.ok

\* RETURN_NOT_OK(task_group->Finish()).
ReturnNotOK(st) == ~st.ok

\* Table::FromRecordBatches(schema, batches).
FromRecordBatches(schema, bs) == [kind |-> "table", schema |-> schema, batches |-> bs]

ErrorResult(st) == [kind |-> "error", error |-> st]

\* scan_options_->schema() of the Scanner that ToTable is called on.
ScannerSchema == Schema(scanner.scan_options)

Ids == 0..(scan_task_id - 1)
TaskOf(id) == elems[id + 1]
PcOf(id) == task_pc[id + 1]
Finished(id) == PcOf(id) = "done"
AllFinished == \A i \in Ids : Finished(i)
Running == {i \in Ids : PcOf(i) \in {"drained", "locked", "returning"}}

\* A shared_ptr owner lets go; the last one destroys the state.
Release(who) ==
  /\ holders' = holders \ {who}
  /\ state_live' = (state_live /\ holders' # {})

\* ------------------------------------------------------------ ToTable
\* ScannerBuilder::UseThreads, called between ToTable calls.
UseThreads(b) ==
  /\ pc = "idle" \/ (pc = "done" /\ ~second /\ AllFinished /\ group_mode = "threaded")
  /\ use_threads' = b
  /\ status' = OK
  /\ UNCHANGED <<schema_, has_projection_, project_columns_, scan_options_, scanner,
                 earlier, fragments_touched, ttVars, sVars>>

\* Scan(), TaskGroup() and make_shared<TableAssemblyState>().  The caller
\* scans the same Scanner a second time, serially, after a threaded call whose
\* closures are all gone.
ToTableBegin ==
  /\ \/ pc = "idle"
     \/ pc = "done" /\ ~second /\ AllFinished /\ group_mode = "threaded"
        /\ ~ScannerUseThreads(scanner)
  /\ second' = (pc = "done")
  /\ first_elems' = IF pc = "done" THEN elems ELSE first_elems
  /\ first_ret' = IF pc = "done" THEN ret ELSE first_ret
  /\ first_mode' = IF pc = "done" THEN group_mode ELSE first_mode
  /\ first_reordered' = IF pc = "done" THEN reordered ELSE first_reordered
  /\ elems' = <<>>
  /\ group_mode' = TaskGroup(ScannerUseThreads(scanner))
  /\ group_status' = OK
  /\ scan_task_id' = 0
  /\ closure_id' = <<>>
  /\ task_pc' = <<>>
  /\ task_status' = <<>>
  /\ local' = <<>>
  /\ batches' = <<>>
  /\ mutex' = Free
  /\ holders' = {ToTableFrame}
  /\ state_live' = TRUE
  /\ reordered' = FALSE
  /\ finish_called' = FALSE
  /\ status_at_return' = OK
  /\ ret' = NoResult
  /\ pc' = "loop"
  /\ UNCHANGED <<use_threads, dangling, bVars, fragments_touched, record_batches, sVars>>

\* The scan tasks of the Scanner when they are known: those of an in-memory
\* Scanner, and in a second call those of the first.
KnownTasks ==
  IF record_batches # NoBatches THEN ScanTaskIteratorFromRecordBatch(record_batches)
  ELSE first_elems

\* What the scan-task iterator may yield next: anything in the first call,
\* the same sequence again in the second.
NextElems ==
  IF second \/ record_batches # NoBatches
  THEN IF Len(elems) < Len(KnownTasks) THEN {KnownTasks[Len(elems) + 1]} ELSE {}
  ELSE IF Len(elems) < MaxTasks THEN Elems ELSE {}

IteratorEnds ==
  IF second \/ record_batches # NoBatches THEN Len(elems) = Len(KnownTasks) ELSE TRUE

\* The loop body: the next scan task gets id = scan_task_id++ and is appended.
SubmitTask(e) ==
  /\ pc = "loop"
  /\ e \in NextElems
  /\ e.kind = "task"
  /\ elems' = Append(elems, e)
  /\ closure_id' = Append(closure_id, PostIncrement(scan_task_id))
  /\ scan_task_id' = scan_task_id + 1
  /\ holders' = CaptureState(holders, scan_task_id)
  /\ task_pc' = Append(task_pc, "queued")
  /\ task_status' = Append(task_status, OK)
  /\ local' = Append(local, <<>>)
  /\ pc' = IF group_mode = "serial" THEN "append" ELSE "loop"
  /\ fragments_touched' = TRUE
  /\ UNCHANGED <<use_threads, group_mode, group_status, batches, mutex, state_live,
                 dangling, reordered, finish_called, ret, callVars, sVars,
                 status_at_return, bVars>>

\* An error element that is passed over, the loop going on after it.
IteratorErrorSkipped(e) ==
  /\ pc = "loop"
  /\ e \in NextElems
  /\ e.kind = "error"
  /\ elems' = Append(elems, e)
  /\ fragments_touched' = TRUE
  /\ UNCHANGED <<use_threads, pc, ret, status_at_return, holders, state_live, group_mode,
                 group_status, scan_task_id, closure_id, task_pc, task_status, local,
                 batches, mutex, dangling, reordered, finish_called, callVars, sVars, bVars>>

\* ARROW_ASSIGN_OR_RAISE(auto scan_task, maybe_scan_task) on an error element.
IteratorError(e) ==
  /\ pc = "loop"
  /\ e \in NextElems
  /\ e.kind = "error"
  /\ elems' = Append(elems, e)
  /\ ret' = ErrorResult(IterError(Len(elems)))
  /\ status_at_return' = group_status
  /\ pc' = "done"
  /\ Release(ToTableFrame)
  /\ fragments_touched' = TRUE
  /\ UNCHANGED <<use_threads, group_mode, group_status, scan_task_id, closure_id, task_pc,
                 task_status, local, batches, mutex, dangling, reordered,
                 finish_called, callVars, sVars, bVars>>

\* The serial group ran the closure inside Append.
AppendReturn ==
  /\ pc = "append"
  /\ Finished(scan_task_id - 1)
  /\ pc' = "loop"
  /\ UNCHANGED <<use_threads, elems, group_mode, group_status, scan_task_id, closure_id, task_pc,
                 task_status, local, batches, mutex, holders, state_live, dangling,
                 reordered, finish_called, ret, callVars, sVars,
                 status_at_return, bVars, fragments_touched>>

\* The iterator is exhausted.
LoopEnd ==
  /\ pc = "loop"
  /\ IteratorEnds
  /\ pc' = "finish"
  /\ fragments_touched' = TRUE
  /\ UNCHANGED <<use_threads, elems, group_mode, group_status, scan_task_id, closure_id, task_pc,
                 task_status, local, batches, mutex, holders, state_live, dangling,
                 reordered, finish_called, ret, callVars, sVars,
                 status_at_return, bVars>>

\* ------------------------------------------------------- the task closure
\* What the closure has when it reaches Emplace: the Status it returns early
\* when Execute() or ToVector() fails, else its local vector.
Produce(e, id) ==
  LET r == Execute(e, id) IN
    IF ~r.ok THEN r
    ELSE LET v == ToVector(r, id) IN
           IF ~v.ok THEN v ELSE [ok |-> TRUE, vec |-> v.vec]

\* A pool thread (or the serial group, inside Append) runs the closure up to
\* its Emplace call: scan_task->Execute(), then batch_it.ToVector().
TaskProduce(i) ==
  /\ i \in Ids
  /\ PcOf(i) = "queued"
  /\ group_mode = "threaded" => Cardinality(Running) < MaxWorkers
  /\ LET r == Produce(TaskOf(i), i) IN
       IF r.ok
       THEN /\ task_pc' = [task_pc EXCEPT ![i + 1] = "drained"]
            /\ local' = [local EXCEPT ![i + 1] = r.vec]
            /\ UNCHANGED task_status
       ELSE /\ task_pc' = [task_pc EXCEPT ![i + 1] = "returning"]
            /\ task_status' = [task_status EXCEPT ![i + 1] = r]
            /\ UNCHANGED local
  /\ UNCHANGED <<use_threads, pc, elems, group_mode, group_status, scan_task_id, closure_id,
                 batches, mutex, holders, state_live, dangling, reordered,
                 finish_called, ret, callVars, sVars,
                 status_at_return, bVars, fragments_touched>>

\* state->Emplace(std::move(local), id): the lock_guard is taken.
EmplaceLock(i) ==
  /\ i \in Ids
  /\ PcOf(i) = "drained"
  /\ CanLock(mutex)
  /\ mutex' = i
  /\ task_pc' = [task_pc EXCEPT ![i + 1] = "locked"]
  /\ dangling' = (dangling \/ ~state_live)
  /\ UNCHANGED <<use_threads, pc, elems, group_mode, group_status, scan_task_id, closure_id,
                 task_status, local, batches, holders, state_live, reordered,
                 finish_called, ret, callVars, sVars,
                 status_at_return, bVars, fragments_touched>>

\* Emplace's body under the lock, and the lock_guard's release.
EmplaceStore(i) ==
  /\ i \in Ids
  /\ PcOf(i) = "locked"
  /\ batches' = Emplace(batches, local[i + 1], closure_id[i + 1])
  /\ local' = [local EXCEPT ![i + 1] = <<>>]
  /\ reordered' = (reordered \/ closure_id[i + 1] + 1 < Len(batches))
  /\ mutex' = IF mutex = i THEN Free ELSE mutex
  /\ task_pc' = [task_pc EXCEPT ![i + 1] = "returning"]
  /\ dangling' = (dangling \/ ~state_live)
  /\ UNCHANGED <<use_threads, pc, elems, group_mode, group_status, scan_task_id, closure_id,
                 task_status, holders, state_live, finish_called, ret, callVars, sVars,
                 status_at_return, bVars, fragments_touched>>

\* The closure returns its Status to the group, which keeps the first error,
\* and the closure (with its shared_ptr) is destroyed.
TaskReturn(i) ==
  /\ i \in Ids
  /\ PcOf(i) = "returning"
  /\ group_status' = IF group_status.ok THEN task_status[i + 1] ELSE group_status
  /\ task_pc' = [task_pc EXCEPT ![i + 1] = "done"]
  /\ Release(i)
  /\ UNCHANGED <<use_threads, pc, elems, group_mode, scan_task_id, closure_id, task_status, local,
                 batches, mutex, dangling, reordered, finish_called, ret, callVars, sVars,
                 status_at_return, bVars, fragments_touched>>

\* ------------------------------------------------------ Finish and assembly
\* When the join is over: every closure is over, or an error was seen.
FinishMayReturn == AllFinished \/ ~group_status.ok

\* task_group->Finish() returns.
FinishReturns ==
  /\ pc = "finish"
  /\ FinishMayReturn
  /\ finish_called' = TRUE
  /\ IF ReturnNotOK(group_status)
     THEN /\ ret' = ErrorResult(group_status)
          /\ status_at_return' = group_status
          /\ pc' = "done"
          /\ Release(ToTableFrame)
     ELSE /\ pc' = "assemble"
          /\ UNCHANGED <<ret, holders, state_live, status_at_return>>
  /\ UNCHANGED <<use_threads, elems, group_mode, group_status, scan_task_id, closure_id, task_pc,
                 task_status, local, batches, mutex, dangling, reordered, callVars, sVars, bVars, fragments_touched>>

\* Table::FromRecordBatches(schema, FlattenRecordBatchVector(move(batches))).
Assemble ==
  /\ pc = "assemble"
  /\ ret' = FromRecordBatches(ScannerSchema, FlattenRecordBatchVector(batches))
  /\ status_at_return' = group_status
  /\ batches' = <<>>
  /\ pc' = "done"
  /\ Release(ToTableFrame)
  /\ UNCHANGED <<use_threads, elems, group_mode, group_status, scan_task_id, closure_id, task_pc,
                 task_status, local, mutex, dangling, reordered, finish_called,
                 callVars, sVars, bVars, fragments_touched>>

\* ------------------------------------------------------------ specification
InitScanner ==
  /\ InitBuilt
  /\ scan_task_it = NoIterator
  /\ dataset_consulted = FALSE
  /\ fragments_touched = FALSE
  /\ pc = "idle"
  /\ second = FALSE
  /\ elems = <<>>
  /\ first_elems = <<>>
  /\ first_ret = NoResult
  /\ first_mode = "none"
  /\ first_reordered = FALSE
  /\ group_mode = "none"
  /\ group_status = OK
  /\ scan_task_id = 0
  /\ closure_id = <<>>
  /\ task_pc = <<>>
  /\ task_status = <<>>
  /\ local = <<>>
  /\ batches = <<>>
  /\ mutex = Free
  /\ holders = {}
  /\ state_live = FALSE
  /\ dangling = FALSE
  /\ reordered = FALSE
  /\ finish_called = FALSE
  /\ status_at_return = OK
  /\ ret = NoResult

InitToTable ==
  /\ InitScanner
  /\ record_batches = NoBatches

NextToTable ==
  \/ \E b \in BOOLEAN : UseThreads(b)
  \/ ToTableBegin
  \/ \E e \in Elems : SubmitTask(e)
  \/ \E e \in Elems : IteratorError(e)
  \/ AppendReturn
  \/ LoopEnd
  \/ \E i \in 0..(MaxTasks - 1) : TaskProduce(i)
  \/ \E i \in 0..(MaxTasks - 1) : EmplaceLock(i)
  \/ \E i \in 0..(MaxTasks - 1) : EmplaceStore(i)
  \/ \E i \in 0..(MaxTasks - 1) : TaskReturn(i)
  \/ FinishReturns
  \/ Assemble

SpecToTable == InitToTable /\ [][NextToTable]_vars

\* A step of a ToTable call: of the thread that called it, or of a closure.
ToTableStep ==
  \/ \E e \in Elems : SubmitTask(e)
  \/ \E e \in Elems : IteratorError(e)
  \/ AppendReturn
  \/ LoopEnd
  \/ \E i \in 0..(MaxTasks - 1) : TaskProduce(i)
  \/ \E i \in 0..(MaxTasks - 1) : EmplaceLock(i)
  \/ \E i \in 0..(MaxTasks - 1) : EmplaceStore(i)
  \/ \E i \in 0..(MaxTasks - 1) : TaskReturn(i)
  \/ FinishReturns
  \/ Assemble

\* The calling thread and the task group's threads are scheduled fairly: a
\* call in which some thread can take a step does not stand still forever.
\* The elements of the scan-task sequences of the calls followed to their
\* return: a task with one batch, a task whose Execute fails, a task whose
\* batch iterator fails, and an error.
ReturningElems ==
  {TaskElem(1, "none"), TaskElem(0, "execute"), TaskElem(0, "drain"), ErrorElem}

\* One ToTable call of a Scanner, after the builder's UseThreads.
NextOneCall ==
  \/ pc = "idle" /\ \E b \in BOOLEAN : UseThreads(b)
  \/ pc = "idle" /\ ToTableBegin
  \/ elems \in Seq(ReturningElems) /\ ToTableStep /\ elems' \in Seq(ReturningElems)

SpecToTableFair == InitToTable /\ [][NextOneCall]_vars /\ WF_vars(ToTableStep)

\* ------------------------------------------- ToTable on an in-memory Scanner
InitInMemory ==
  /\ InitScanner
  /\ record_batches \in BatchLists

NextInMemory ==
  \/ \E b \in BOOLEAN : UseThreads(b)
  \/ ToTableBegin
  \/ \E e \in NextElems : SubmitTask(e)
  \/ AppendReturn
  \/ LoopEnd
  \/ \E i \in 0..(MaxTasks - 1) : TaskProduce(i)
  \/ \E i \in 0..(MaxTasks - 1) : EmplaceLock(i)
  \/ \E i \in 0..(MaxTasks - 1) : EmplaceStore(i)
  \/ \E i \in 0..(MaxTasks - 1) : TaskReturn(i)
  \/ FinishReturns
  \/ Assemble

SpecInMemory == InitInMemory /\ [][NextInMemory]_vars

\* ------------------------------------------------- builder specification
\* A consumer advances the iterator that Scanner::Scan() returned.
ScanNext ==
  /\ pc = "idle"
  /\ scanner.made
  /\ fragments_touched' = TRUE
  /\ UNCHANGED <<use_threads, bVars, ttVars, sVars>>

\* No Scanner is made and nothing is being scanned.
BuilderIdle ==
  /\ scanner = NoScanner
  /\ earlier = NoScanner
  /\ record_batches = NoBatches
  /\ fragments_touched = FALSE
  /\ pc = "idle"
  /\ second = FALSE
  /\ elems = <<>>
  /\ first_elems = <<>>
  /\ first_ret = NoResult
  /\ first_mode = "none"
  /\ first_reordered = FALSE
  /\ group_mode = "none"
  /\ group_status = OK
  /\ scan_task_id = 0
  /\ closure_id = <<>>
  /\ task_pc = <<>>
  /\ task_status = <<>>
  /\ local = <<>>
  /\ batches = <<>>
  /\ mutex = Free
  /\ holders = {}
  /\ state_live = FALSE
  /\ dangling = FALSE
  /\ reordered = FALSE
  /\ finish_called = FALSE
  /\ status_at_return = OK
  /\ ret = NoResult
  /\ scan_task_it = NoIterator
  /\ dataset_consulted = FALSE

\* A builder on a dataset of any schema.
InitBuilder ==
  /\ \E schema \in Schemas : Constructed(schema)
  /\ dataset_ = Dataset(<<>>)
  /\ fragment_ = NoFragment
  /\ BuilderIdle

\* The builder is configured, then finished; the Scanner is then scanned.
NextBuilder ==
  \/ ~scanner.made /\ \E columns \in ColumnLists : Project(columns)
  \/ ~scanner.made /\ \E filter \in Expressions : Filter(filter)
  \/ ~scanner.made /\ \E b \in BOOLEAN : UseThreads(b)
  \/ ~scanner.made /\ \E n \in (0 - MaxBatchSize)..MaxBatchSize : BatchSize(n)
  \/ ~scanner.made /\ Finish
  \/ ScanNext

SpecBuilder == InitBuilder /\ [][NextBuilder]_vars

\* The calls made on the builder before and after its Scanners are made.
RebuildColumns == {<<>>, <<"a">>, <<"b", "a">>}
RebuildFilters ==
  {LiteralTrue, Call(<<FieldRef("b"), FieldRef("a")>>),
   Call(<<FieldRef("a"), Literal("int64")>>)}

\* ------------------------------------------------ Scan() and its iterator
\* A Scan that unwinds the iterators before it returns.
EagerScan ==
  /\ pc = "idle"
  /\ scanner.made
  /\ scan_task_it' = GetScanTaskIterator(GetFragments(scanner))
  /\ fragments_touched' = TRUE
  /\ dataset_consulted' = (GetFragments(scanner).kind = "datasets")
  /\ UNCHANGED <<use_threads, bVars, fragment_, dataset_, ttVars>>

\* Scanner::Scan: GetFragments(), then GetScanTaskIterator over the result.
Scan ==
  /\ pc = "idle"
  /\ scanner.made
  /\ scan_task_it' = GetScanTaskIterator(GetFragments(scanner))
  /\ UNCHANGED <<use_threads, bVars, fragments_touched, fragment_, dataset_,
                 dataset_consulted, ttVars>>

\* Iterator::Next on the scan-task iterator: the fragment iterator is advanced,
\* which asks the dataset for its fragments, and the next fragment's ScanTask
\* is yielded, or the end.
IteratorNext ==
  /\ pc = "idle"
  /\ scan_task_it.made
  /\ ~scan_task_it.done
  /\ LET fs == Fragments(scan_task_it.fragments)
         n == Len(scan_task_it.yielded)
     IN scan_task_it' =
          IF n < Len(fs)
          THEN [scan_task_it EXCEPT !.yielded = Append(@, ScanTaskOf(fs[n + 1]))]
          ELSE [scan_task_it EXCEPT !.done = TRUE]
  /\ fragments_touched' = TRUE
  /\ dataset_consulted' = (dataset_consulted \/ scan_task_it.fragments.kind = "datasets")
  /\ UNCHANGED <<use_threads, bVars, fragment_, dataset_, ttVars>>

\* A builder made by either constructor, over the schema (a, b).
InitScan ==
  /\ Constructed(<<Field("a", "int64"), Field("b", "int64")>>)
  /\ \/ dataset_ \in Datasets /\ fragment_ = NoFragment
     \/ dataset_ = NoDataset /\ fragment_ \in SingleFragments
  /\ BuilderIdle

NextScan ==
  \/ ~scanner.made /\ \E columns \in RebuildColumns : Project(columns)
  \/ ~scanner.made /\ \E filter \in RebuildFilters : Filter(filter)
  \/ ~scanner.made /\ Finish
  \/ ~scan_task_it.made /\ Scan
  \/ IteratorNext

SpecScan == InitScan /\ [][NextScan]_vars

\* ---------------------------------------- a builder used after Finish()
InitRebuild ==
  /\ InitBuilder
  /\ schema_ = <<Field("a", "int64"), Field("b", "int64")>>

NextRebuild ==
  \/ \E columns \in RebuildColumns : Project(columns)
  \/ \E filter \in RebuildFilters : Filter(filter)
  \/ \E n \in {0, MaxBatchSize} : BatchSize(n)
  \/ \E b \in BOOLEAN : UseThreads(b)
  \/ NewOptions <= MaxFinishes /\ Finish

SpecRebuild == InitRebuild /\ [][NextRebuild]_vars

\* ------------------------------------------------------------------ claims
\* Batches of the tasks enumerated before position i.
RECURSIVE Offset(_)
Offset(i) == IF i = 0 THEN 0 ELSE Offset(i - 1) + elems[i].n

\* The batch list task i produces.
BatchesOf(i) == [j \in 1..TaskOf(i).n |-> Batch(i, j)]

\* The closure of task i is past its Emplace call.
Stored(i) == PcOf(i) \in {"returning", "done"} /\ task_status[i + 1].ok
              /\ TaskOf(i).fail = "none"

\* C1: when ToTable succeeds, the table's batches are task 0's batches, then
\* task 1's, ..., each task's in the order the task produced them, whatever
\* the order in which the closures completed.
C1_RowOrderIsEnumerationOrder ==
  ret.kind = "table" =>
    /\ Len(ret.batches) = Offset(scan_task_id)
    /\ \A i \in Ids : \A j \in 1..TaskOf(i).n :
         ret.batches[Offset(i) + j] = Batch(i, j)

\* Three tasks of two batches each, stored out of order, and a table returned.
C1_Witness ==
  /\ ret.kind = "table"
  /\ group_mode = "threaded"
  /\ reordered
  /\ scan_task_id = 3
  /\ \A i \in Ids : TaskOf(i).n = 2

\* C2: a threaded ToTable and a serial ToTable over the same scan tasks end
\* the same way, and on success return the same ordered batches.
C2_SerialEqualsThreaded ==
  (second /\ pc = "done" /\ first_mode = "threaded" /\ group_mode = "serial") =>
    /\ ret.kind = first_ret.kind
    /\ ret.kind = "table" => ret.batches = first_ret.batches

\* Both calls returned a table of three tasks' batches; the threaded call's
\* closures had stored out of order.
C2_Witness ==
  /\ second
  /\ pc = "done"
  /\ first_mode = "threaded"
  /\ group_mode = "serial"
  /\ first_reordered
  /\ ret.kind = "table"
  /\ scan_task_id = 3
  /\ Len(ret.batches) >= 3

\* A task appended in this call fails.
SomeTaskFails == \E i \in Ids : TaskOf(i).fail # "none"

\* C3 as stated: when a submitted task had failed by the time ToTable
\* returned, ToTable returned the first error the task group observed.
C3_ReturnsGroupsFirstError ==
  (pc = "done" /\ ~status_at_return.ok) => ret = ErrorResult(status_at_return)

\* C3 amended: when a submitted task fails ToTable returns an error and no
\* table; the error is the first one the task group observed when ToTable
\* reached Finish, and the iterator's own error when it did not.  A table is
\* returned only when every enumerated task succeeded.
C3_FailureReturnsErrorNoTable ==
  /\ (pc = "done" /\ SomeTaskFails) =>
       /\ ret.kind = "error"
       /\ finish_called => (ret.error = group_status /\ ret.error.from = "task")
       /\ ~finish_called => ret.error = IterError(scan_task_id)
  /\ ret.kind = "table" =>
       /\ \A k \in 1..Len(elems) : elems[k].kind = "task" /\ elems[k].fail = "none"
       /\ Len(ret.batches) = Offset(scan_task_id)

\* Task 2 of 3 fails, the others succeed, and ToTable returned its error.
C3_Witness ==
  /\ pc = "done"
  /\ finish_called
  /\ scan_task_id = 3
  /\ TaskOf(0).fail = "none" /\ TaskOf(1).fail # "none" /\ TaskOf(2).fail = "none"
  /\ ret.kind = "error"
  /\ ret.error.id = 1

\* C4: the assembly state is live whenever a closure is at or in Emplace, also
\* after ToTable returned an error, and no closure ever touched a destroyed
\* state; the state holds exactly what the successful closures stored, and a
\* failing task's slot is absent or empty.
C4_StateStaysValid ==
  /\ ~dangling
  /\ state_live = (holders # {})
  /\ \A i \in Ids : PcOf(i) \in {"queued", "drained", "locked", "returning"} =>
       (state_live /\ i \in holders)
  /\ (state_live /\ ret.kind # "table") =>
       \A i \in Ids :
         IF Stored(i)
         THEN i + 1 <= Len(batches) /\ batches[i + 1] = BatchesOf(i)
         ELSE i + 1 > Len(batches) \/ batches[i + 1] = <<>>

\* ToTable has returned a task's error; another task's batches are stored and
\* a third closure is inside Emplace.
C4_Witness ==
  /\ pc = "done"
  /\ ret.kind = "error"
  /\ finish_called
  /\ \E i, j, k \in Ids :
       /\ PcOf(i) = "done" /\ ~task_status[i + 1].ok
       /\ Stored(j) /\ TaskOf(j).n > 0
       /\ PcOf(k) = "locked"

\* C5: a closure changes state->batches only in the step it takes while it
\* owns the mutex; at most one closure is between lock and unlock; and the
\* step that produces a closure's batches is taken with the mutex not its own.
C5_MutationsUnderTheMutex ==
  [][/\ (batches' # batches /\ pc' = pc) =>
          \E i \in Ids : /\ mutex = i
                         /\ PcOf(i) = "locked"
                         /\ task_pc'[i + 1] = "returning"
                         /\ \A k \in Ids \ {i} : PcOf(k) # "locked"
     /\ Cardinality({i \in 0..(scan_task_id' - 1) : task_pc'[i + 1] = "locked"}) <= 1
     /\ \A i \in 0..(scan_task_id' - 1) :
          (task_pc'[i + 1] = "locked") = (mutex' = i)
     /\ \A i \in Ids :
          (pc' = pc /\ PcOf(i) = "queued" /\ task_pc'[i + 1] # "queued") =>
            (mutex # i /\ mutex' # i /\ batches' = batches)
    ]_vars

\* One closure is inside Emplace while another, its batches produced, waits
\* for the mutex and a third has not produced its batches yet.
C5_Witness ==
  \E i, j, k \in Ids :
    /\ PcOf(i) = "locked" /\ mutex = i
    /\ PcOf(j) = "drained"
    /\ PcOf(k) = "queued"

\* ------------------------------------------------- claims on the builder
\* The range of a sequence.
Range(s) == {s[k] : k \in 1..Len(s)}

\* How many times n occurs in s.
Count(n, s) == Cardinality({k \in 1..Len(s) : s[k] = n})

\* Some reference of the expression has no field, or several, in the schema.
SomeRefUnresolved(filter, schema) ==
  \E n \in Range(FieldsInExpression(filter)) : Cardinality(FindAll(n, schema)) # 1

\* The options objects that exist: the builder's, and the Scanner's if made.
LiveOptions == {scan_options_} \cup (IF scanner.made THEN {scanner.scan_options} ELSE {})

\* C6: after a successful Project(C), the empty C included, Finish() yields a
\* Scanner whose options' schema has exactly the fields named in C, in C's
\* order.
C6_ProjectThenFinishYieldsColumns ==
  [][(has_projection_ /\ Finish) =>
       FieldNames(Schema(scanner'.scan_options)) = project_columns_]_vars

\* C6, the diverging input: Project of the empty list succeeded, and the
\* Scanner that Finish made has the whole schema of the builder.
C6_Witness ==
  /\ scanner.made
  /\ has_projection_
  /\ project_columns_ = <<>>
  /\ schema_ # <<>>
  /\ Schema(scanner.scan_options) = schema_

\* C7 as stated: Filter(expr) returns an error when some reference does not
\* resolve to exactly one field, leaving the filter and the fragments alone;
\* otherwise the stored filter becomes expr bound to the schema.
C7_FilterStoresUnlessUnresolved ==
  [][\A filter \in Expressions : Filter(filter) =>
       IF SomeRefUnresolved(filter, schema_)
       THEN /\ ~status'.ok
            /\ scan_options_' = scan_options_
            /\ fragments_touched' = fragments_touched
       ELSE /\ status'.ok
            /\ Bind(filter, schema_).ok
            /\ scan_options_'.filter = Bind(filter, schema_).value]_vars

\* C7: Filter(expr) returns an error when some reference does not resolve to
\* exactly one field, and also when every reference resolves but binding
\* fails; in both cases the stored filter is unchanged and no fragment is
\* touched.  Only when binding succeeds does the stored filter become expr
\* bound to the schema, the rest of the options staying as they were.
C7_FilterStoresOnlyWhenBound ==
  [][\A filter \in Expressions : Filter(filter) =>
       /\ fragments_touched' = fragments_touched
       /\ IF SomeRefUnresolved(filter, schema_) \/ ~Bind(filter, schema_).ok
          THEN /\ ~status'.ok
               /\ scan_options_' = scan_options_
          ELSE /\ status'.ok
               /\ scan_options_' =
                    [scan_options_ EXCEPT !.filter = Bind(filter, schema_).value]]_vars

\* C7: a Filter was refused for an unresolved reference after an earlier
\* Filter had stored a bound call, which is still the stored filter.
C7_Witness ==
  /\ status \in {NoMatch(""), MultipleMatches("")}
  /\ scan_options_.filter.kind = "call"
  /\ scan_options_.filter.bound
  /\ ~fragments_touched

\* C8: Project(columns) returns a name-resolution error whenever some column
\* is not found in the schema; an error leaves has_projection_ and
\* project_columns_ unchanged; success records exactly the requested columns in
\* request order.
C8_ProjectChecksNames ==
  [][\A columns \in ColumnLists : Project(columns) =>
       /\ (\E n \in Range(columns) : FindAll(n, schema_) = {})
            => status' = NameResolutionError
       /\ ~status'.ok => /\ has_projection_' = has_projection_
                         /\ project_columns_' = project_columns_
       /\ status'.ok => /\ has_projection_'
                        /\ project_columns_' = columns]_vars

\* C8: a Project was refused after an earlier Project had recorded columns,
\* which are still the recorded projection.
C8_Witness ==
  /\ status = NameResolutionError
  /\ has_projection_
  /\ project_columns_ # <<>>
  /\ \A n \in Range(project_columns_) : Cardinality(FindAll(n, schema_)) = 1

\* C9: BatchSize(n) returns an invalid-argument error for n <= 0 and leaves the
\* batch size unchanged; for n >= 1 it succeeds and the batch size becomes n.
\* Hence the batch size of the builder's options, and of a Scanner's, is
\* always > 0.
C9_BatchSizePositive ==
  /\ [](\A options \in LiveOptions : options.batch_size > 0)
  /\ [][\A n \in (0 - MaxBatchSize)..MaxBatchSize : BatchSize(n) =>
          IF n <= 0
          THEN /\ status' = BatchSizeError
               /\ scan_options_'.batch_size = scan_options_.batch_size
          ELSE /\ status'.ok
               /\ scan_options_'.batch_size = n]_vars

\* C9: a BatchSize was refused after an earlier BatchSize had set the size,
\* which is still the stored size.
C9_Witness ==
  /\ status = BatchSizeError
  /\ scan_options_.batch_size = MaxBatchSize

\* C10 as stated: MaterializedFields() is the schema's field names plus only
\* those filter-referenced names that are not already in the schema, so a
\* name that is a schema field and referenced by the filter is listed once.
C10_FilterRefsListedOnlyIfNotInSchema ==
  \A options \in LiveOptions :
    MaterializedFields(options) =
      FieldNames(Schema(options)) \o
        SelectSeq(FieldsInExpression(options.filter),
                  LAMBDA n : n \notin Range(FieldNames(Schema(options))))

\* C10: MaterializedFields() lists a name once for every schema field of that
\* name and once more for every reference the filter makes to it, whether or
\* not the name is a schema field; so a filter-only column excluded from the
\* projection is listed, and a schema field the filter refers to is listed
\* again.
C10_EveryFilterRefIsListed ==
  \A options \in LiveOptions :
    /\ Range(FieldsInExpression(options.filter)) \subseteq Range(MaterializedFields(options))
    /\ \A n \in Names :
         Count(n, MaterializedFields(options)) =
           Count(n, FieldNames(Schema(options))) + Count(n, FieldsInExpression(options.filter))

\* C10: a Scanner projected to (a) whose filter refers to b and to a: b is
\* listed though it is not projected, and a is listed twice.
C10_Witness ==
  /\ scanner.made
  /\ FieldNames(Schema(scanner.scan_options)) = <<"a">>
  /\ FieldsInExpression(scanner.scan_options.filter) = <<"b", "a">>
  /\ MaterializedFields(scanner.scan_options) = <<"a", "b", "a">>

\* C11: MaterializedFields() is as long as the schema and the filter's
\* references together; its k-th entry is the name of the schema's k-th field,
\* and the entries after the schema's are the filter's references in the order
\* FieldsInExpression enumerates them.  Nothing is dropped, nothing is merged.
C11_SchemaNamesThenFilterRefs ==
  \A options \in LiveOptions :
    LET m == MaterializedFields(options)
        fields == Schema(options)
        refs == FieldsInExpression(options.filter)
    IN /\ Len(m) = Len(fields) + Len(refs)
       /\ \A k \in 1..Len(fields) : m[k] = fields[k].name
       /\ \A k \in 1..Len(refs) : m[Len(fields) + k] = refs[k]

\* C11: a Scanner projected to (b, a) whose filter refers to a, then to b.
C11_Witness ==
  /\ scanner.made
  /\ FieldNames(Schema(scanner.scan_options)) = <<"b", "a">>
  /\ FieldsInExpression(scanner.scan_options.filter) = <<"a", "b">>
  /\ MaterializedFields(scanner.scan_options) = <<"b", "a", "a", "b">>

\* C12: no Scanner's options pointer is scan_options_ or another Scanner's,
\* and every step of the builder other than Finish() leaves every Scanner
\* already made, with its schema, filter and batch size, as it was.
C12_ScannerOwnsItsOptions ==
  /\ [](/\ scanner.made => scanner.options # BuilderOptions
        /\ earlier.made => earlier.options \notin {BuilderOptions, scanner.options})
  /\ [][~Finish => (scanner' = scanner /\ earlier' = earlier)]_vars

\* C12: two Scanners were made and the builder was changed after each: the
\* three options objects differ in filter, the Scanners in schema and batch
\* size, and the builder's projection is no longer the last Scanner's.
C12_Witness ==
  /\ earlier.made /\ scanner.made
  /\ earlier.scan_options.filter # scanner.scan_options.filter
  /\ scan_options_.filter \notin {earlier.scan_options.filter, scanner.scan_options.filter}
  /\ Schema(earlier.scan_options) # Schema(scanner.scan_options)
  /\ earlier.scan_options.batch_size # scanner.scan_options.batch_size
  /\ has_projection_ /\ FieldNames(Schema(scanner.scan_options)) # project_columns_

\* Every field reference of the bound expression holds the position and the
\* type that its name has in the schema.
BoundAgainst(expr, schema) ==
  expr.kind = "call" =>
    /\ expr.bound
    /\ \A k \in 1..Len(expr.arguments) :
         LET x == expr.arguments[k] IN
           x.kind = "field_ref" =>
             /\ x.index \in 1..Len(schema)
             /\ schema[x.index].name = x.name
             /\ schema[x.index].type = x.type

\* C13: when Finish() narrows the schema, the Scanner's filter and batch size
\* are the builder's, the filter's references hold positions in the builder's
\* full schema, and the Scanner's options are the builder's options with only
\* the schema (and the projector made from it) replaced.
C13_NarrowingKeepsFilterAndBatchSize ==
  [][(has_projection_ /\ project_columns_ # <<>> /\ Finish) =>
       LET options == scanner'.scan_options IN
         /\ options.filter = scan_options_.filter
         /\ options.batch_size = scan_options_.batch_size
         /\ BoundAgainst(options.filter, schema_)
         /\ options = [scan_options_ EXCEPT !.projector = Schema(options)]
         /\ FieldNames(Schema(options)) = project_columns_]_vars

\* C13: a Scanner narrowed to (a) out of (a, b); its filter refers to b, the
\* dropped column, at b's position 2 in the full schema, and its batch size is
\* the one set on the builder.
C13_Witness ==
  /\ scanner.made
  /\ FieldNames(schema_) = <<"a", "b">>
  /\ project_columns_ = <<"a">>
  /\ FieldNames(Schema(scanner.scan_options)) = <<"a">>
  /\ scanner.scan_options.filter.kind = "call"
  /\ scanner.scan_options.filter.arguments[1].name = "b"
  /\ scanner.scan_options.filter.arguments[1].index = 2
  /\ scanner.scan_options.batch_size = MaxBatchSize

\* C14: when no Project call has succeeded on the builder, Finish() yields a
\* Scanner whose options' schema is the builder's full schema, whatever
\* Filter, BatchSize and UseThreads calls were made.
C14_NoProjectionKeepsFullSchema ==
  [][(~has_projection_ /\ Finish) => Schema(scanner'.scan_options) = schema_]_vars

\* C14: a Scanner over the full two-field schema made by a builder on which a
\* filter, a batch size and threads were set and no projection.
C14_Witness ==
  /\ scanner.made
  /\ ~has_projection_
  /\ Len(schema_) = MaxFields
  /\ Schema(scanner.scan_options) = schema_
  /\ scanner.scan_options.filter.kind = "call"
  /\ scanner.scan_options.batch_size = MaxBatchSize
  /\ use_threads

\* C15: when ToTable flattens the state, and whenever it has returned a
\* table, Finish() was called and returned success, every submitted closure
\* is over and none is queued or running, and when it flattens every index
\* 0..N-1 of the state holds the batch list of the task with that index.
C15_TableOnlyAfterAllStored ==
  (pc = "assemble" \/ ret.kind = "table") =>
    /\ finish_called
    /\ group_status.ok
    /\ AllFinished
    /\ Running = {}
    /\ \A i \in Ids : Stored(i)
    /\ pc = "assemble" =>
         /\ Len(batches) = scan_task_id
         /\ \A i \in Ids : batches[i + 1] = BatchesOf(i)

\* C15: the threaded call is about to flatten three tasks' batch lists, which
\* were stored out of order.
C15_Witness ==
  /\ pc = "assemble"
  /\ group_mode = "threaded"
  /\ scan_task_id = 3
  /\ reordered
  /\ \A i \in Ids : TaskOf(i).n > 0

C19_IdIsEnumerationOrder ==
  /\ [](/\ Len(closure_id) = scan_task_id
        /\ Len(task_pc) = scan_task_id
        /\ \A k \in 1..scan_task_id : elems[k].kind = "task" /\ closure_id[k] = k - 1)
  /\ [][\A i \in 0..(MaxTasks - 1) : EmplaceStore(i) =>
          /\ batches'[i + 1] = local[i + 1]
          /\ \A k \in 1..Len(batches) : k # i + 1 => batches'[k] = batches[k]]_vars

\* C19: three tasks were taken; the closure with id 2 has stored at index 2
\* while those with ids 0 and 1 have not stored yet.
C19_Witness ==
  /\ scan_task_id = 3
  /\ closure_id = <<0, 1, 2>>
  /\ PcOf(2) = "returning" /\ TaskOf(2).n > 0
  /\ PcOf(0) = "queued" /\ PcOf(1) = "drained"
  /\ batches = <<<<>>, <<>>, BatchesOf(2)>>

\* The larger of two numbers.
Max(m, n) == IF m >= n THEN m ELSE n

\* C20: Emplace(b, p) leaves the collection with length max(old length, p+1)
\* and b at p; every other entry it had is unchanged and every entry it gained
\* other than p is an empty batch list.  While a closure is not over the
\* collection does not get shorter.
C20_EmplaceGrowsAndStores ==
  [][/\ \A i \in 0..(MaxTasks - 1) : EmplaceStore(i) =>
          LET p == closure_id[i + 1]
              b == local[i + 1]
          IN /\ Len(batches') = Max(Len(batches), p + 1)
             /\ batches'[p + 1] = b
             /\ \A k \in 1..Len(batches') :
                  k # p + 1 => batches'[k] = (IF k <= Len(batches) THEN batches[k] ELSE <<>>)
     /\ ~AllFinished => Len(batches') >= Len(batches)]_vars

\* C20: index 2 was stored first, growing the collection to three entries, and
\* index 0 was stored afterwards into the gap; index 1 is still empty.
C20_Witness ==
  /\ scan_task_id = 3
  /\ Len(batches) = 3
  /\ reordered
  /\ TaskOf(0).n > 0 /\ batches[1] = BatchesOf(0)
  /\ batches[2] = <<>> /\ PcOf(1) = "drained" /\ TaskOf(1).n > 0
  /\ batches[3] = BatchesOf(2) /\ TaskOf(2).n > 0

\* C17: the scan-task iterator yields, in order, one ScanTask for each
\* fragment that GetFragments() enumerates, and no more; a Scan() call leaves
\* the fragments and the dataset untouched and runs no task, and as long as
\* the iterator it returned has not been advanced they stay untouched.
C17_ScanIsLazyOnePerFragment ==
  /\ [](IF scan_task_it.made
        THEN LET fs == Fragments(GetFragments(scanner))
                 yielded == scan_task_it.yielded
             IN /\ Len(yielded) <= Len(fs)
                /\ \A k \in 1..Len(yielded) :
                     yielded[k].kind = "task" /\ yielded[k].fragment = fs[k]
                /\ scan_task_it.done => Len(yielded) = Len(fs)
                /\ (yielded = <<>> /\ ~scan_task_it.done) =>
                     (~fragments_touched /\ ~dataset_consulted)
        ELSE ~fragments_touched /\ ~dataset_consulted)
  /\ [][Scan => UNCHANGED <<fragments_touched, dataset_consulted, elems, task_pc>>]_vars

\* C17: the iterator over a dataset of two fragments that the filter keeps was
\* advanced to its end: two ScanTasks, the first fragment's first.
C17_Witness ==
  /\ scan_task_it.made /\ scan_task_it.done
  /\ Len(scanner.dataset_.fragments) = 2
  /\ Len(scan_task_it.yielded) = 2
  /\ scan_task_it.yielded[1].fragment.id = 1
  /\ scan_task_it.yielded[2].fragment.id = 2
  /\ scanner.scan_options.filter.kind = "call"
  /\ dataset_consulted

\* C18: a Scanner has a fragment or a dataset and not both.  With a fragment,
\* GetFragments() is a sequence of that fragment alone and the dataset is
\* never asked for fragments.  With a dataset, it is the dataset's fragments
\* that the Scanner's bound filter does not exclude, in the dataset's order.
C18_FragmentOrDataset ==
  scanner.made =>
    /\ (scanner.fragment_ = NoFragment) # (scanner.dataset_ = NoDataset)
    /\ scanner.fragment_ # NoFragment =>
         /\ Fragments(GetFragments(scanner)) = <<scanner.fragment_>>
         /\ ~dataset_consulted
    /\ scanner.dataset_ # NoDataset =>
         /\ BoundAgainst(scanner.scan_options.filter, schema_)
         /\ Fragments(GetFragments(scanner)) =
              SelectSeq(scanner.dataset_.fragments,
                        LAMBDA f : scanner.scan_options.filter.kind = "literal"
                                     \/ f.partition = "all")

\* C18: a Scanner on a single fragment, with a filter set, was scanned to the
\* end: its one fragment was yielded and no dataset was consulted.
C18_Witness ==
  /\ scanner.made
  /\ scanner.fragment_ \in SingleFragments
  /\ scanner.dataset_ = NoDataset
  /\ scanner.scan_options.filter.kind = "call"
  /\ scan_task_it.made /\ scan_task_it.done
  /\ Len(scan_task_it.yielded) = 1
  /\ scan_task_it.yielded[1].fragment = scanner.fragment_
  /\ ~dataset_consulted

\* C21: over a finite scan-task sequence, with the threads scheduled fairly, a
\* ToTable call that has begun returns a table or an error, in the serial and
\* in the threaded mode.  The calling thread can always take a step of its own
\* in the loop, in the closure a serial Append runs, and at assembly; only in
\* Finish() does it wait, and then for a closure that is not over.
C21_ToTableTerminates ==
  /\ (pc \notin {"idle", "done"}) ~> (pc = "done" /\ ret.kind \in {"table", "error"})
  /\ [](/\ pc = "loop" => (IteratorEnds \/ NextElems # {})
        /\ pc = "append" => (PcOf(scan_task_id - 1) = "drained" => CanLock(mutex))
        /\ (pc = "finish" /\ ~FinishMayReturn) => \E i \in Ids : ~Finished(i))

\* C21: the threaded call waits in Finish() while two closures run and a third
\* is queued.
C21_Witness ==
  /\ pc = "finish"
  /\ group_mode = "threaded"
  /\ ~FinishMayReturn
  /\ Cardinality(Running) = MaxWorkers
  /\ \E i \in Ids : PcOf(i) = "queued"

\* C22: the collection is read without the lock only after Finish() returned
\* success, when every closure is over, none holds the mutex and none owns the
\* state any more; a call that returns while a closure is not over returns an
\* error, made of no batch of the collection.
C22_UnlockedReadAfterJoin ==
  /\ pc = "assemble" =>
       /\ finish_called /\ group_status.ok
       /\ AllFinished /\ mutex = Free /\ holders = {ToTableFrame}
  /\ ret.kind = "table" => AllFinished /\ finish_called
  /\ (pc = "done" /\ ~AllFinished) => ret.kind = "error" /\ "batches" \notin DOMAIN ret

\* C22: Finish() returned an error and ToTable returned it while a closure is
\* inside Emplace and the collection holds another task's batches, unread.
C22_Witness ==
  /\ pc = "done"
  /\ finish_called
  /\ ret.kind = "error"
  /\ \E i \in Ids : PcOf(i) = "locked"
  /\ \E k \in 1..Len(batches) : batches[k] # <<>>

\* C23: when the scan-task sequence yields an error at position k, ToTable
\* returns that error and no table, has submitted tasks 0..k-1 and no other,
\* and has not called Finish(); the closures of those tasks that are not over
\* still own the assembly state, so their Emplace is safe.
C23_IteratorErrorReturnsAtOnce ==
  (pc = "done" /\ elems # <<>> /\ elems[Len(elems)].kind = "error") =>
    LET k == Len(elems) - 1 IN
      /\ ret = ErrorResult(IterError(k))
      /\ scan_task_id = k /\ Len(task_pc) = k /\ Len(closure_id) = k
      /\ \A i \in 1..k : elems[i].kind = "task"
      /\ ~finish_called
      /\ ~dangling
      /\ (\E i \in Ids : ~Finished(i)) => state_live

\* C23: the sequence yielded two tasks and then an error; the threaded call
\* has returned while one closure is inside Emplace and the other is queued.
C23_Witness ==
  /\ pc = "done"
  /\ group_mode = "threaded"
  /\ Len(elems) = 3 /\ elems[3].kind = "error"
  /\ ret.kind = "error"
  /\ \E i \in Ids : PcOf(i) = "locked"
  /\ \E i \in Ids : PcOf(i) = "queued"

\* C24: in one ToTable call no two closures hold the same index, so no task's
\* stored list is overwritten by another task: while the collection is not
\* moved out, every task past its Emplace finds its list at its index.  The
\* collection never has more slots, nor more written slots, than tasks were
\* submitted.
C24_EachIndexWrittenOnce ==
  /\ \A i, j \in Ids : i # j => closure_id[i + 1] # closure_id[j + 1]
  /\ \A i \in Ids : closure_id[i + 1] \in 0..(scan_task_id - 1)
  /\ Len(batches) <= scan_task_id
  /\ Cardinality({i \in Ids : Stored(i)}) <= scan_task_id
  /\ (state_live /\ ret.kind # "table") =>
       \A i \in Ids : Stored(i) =>
         /\ closure_id[i + 1] < Len(batches)
         /\ batches[closure_id[i + 1] + 1] = BatchesOf(i)

\* C24: three tasks with batches have all stored, the last-enumerated first.
C24_Witness ==
  /\ pc = "finish"
  /\ scan_task_id = MaxTasks
  /\ reordered
  /\ \A i \in Ids : Stored(i) /\ TaskOf(i).n > 0
  /\ Len(batches) = MaxTasks

\* The batch lists of the first i tasks that are not empty, in enumeration
\* order.
RECURSIVE NonEmptyLists(_)
NonEmptyLists(i) ==
  IF i = 0 THEN <<>>
  ELSE IF elems[i].n = 0 THEN NonEmptyLists(i - 1)
  ELSE Append(NonEmptyLists(i - 1), BatchesOf(i - 1))

\* The lists of a sequence of lists, one after the other.
RECURSIVE Concat(_)
Concat(lists) == IF lists = <<>> THEN <<>> ELSE Head(lists) \o Concat(Tail(lists))

\* C25: the table is built against the schema of the Scanner's options; from
\* an empty scan-task sequence it has no batch; a task that produced no batch
\* contributes nothing, and the batches of the other tasks keep their
\* enumeration order.
C25_EmptyInputs ==
  ret.kind = "table" =>
    /\ ret.schema = ScannerSchema
    /\ scan_task_id = 0 => ret.batches = <<>>
    /\ ret.batches = Concat(NonEmptyLists(scan_task_id))

\* C25: a table from three tasks, the middle one without batches, stored out
\* of enumeration order.
C25_Witness ==
  /\ ret.kind = "table"
  /\ scan_task_id = 3
  /\ TaskOf(0).n > 0 /\ TaskOf(1).n = 0 /\ TaskOf(2).n > 0
  /\ reordered
  /\ Len(ret.batches) = TaskOf(0).n + TaskOf(2).n

\* The Scanners the builder has made.
MadeScanners == {sc \in {scanner, earlier} : sc.made}

\* C26: every Scanner of the builder holds the builder's scan context, so all
\* of them read the flag the builder's last UseThreads call left; a
\* UseThreads(b) call returns OK, changes no Scanner object, and makes the
\* task group of each Scanner's next ToTable the one for b, also for a Scanner
\* made before the call.
C26_ScanContextIsShared ==
  /\ [](\A sc \in MadeScanners :
          /\ sc.scan_context = BuilderContext
          /\ ScannerUseThreads(sc) = use_threads)
  /\ [][\A b \in BOOLEAN : UseThreads(b) =>
          /\ status'.ok
          /\ scanner' = scanner /\ earlier' = earlier
          /\ \A sc \in MadeScanners :
               (TaskGroup(ScannerUseThreads(sc)))' = TaskGroup(b)]_vars

\* C26: two Scanners made while the flag was off, and the flag now on: both
\* run their next ToTable threaded.
C26_Witness ==
  /\ scanner.made /\ earlier.made
  /\ ~scanner.use_threads /\ ~earlier.use_threads
  /\ use_threads
  /\ \A sc \in MadeScanners : TaskGroup(ScannerUseThreads(sc)) = "threaded"

\* C27: no builder call changes the schema the builder was constructed over.
\* Project and Filter succeed or fail by that schema alone, whatever columns
\* were projected before; a successful Project leaves exactly its own columns
\* recorded and a failed one leaves the recorded ones; Finish narrows by the
\* recorded columns only.
C27_ValidatedAgainstOriginalSchema ==
  [][/\ schema_' = schema_
     /\ \A columns \in RebuildColumns : Project(columns) =>
          /\ status'.ok <=> CanReferenceFieldsByNames(schema_, columns).ok
          /\ project_columns_' = IF status'.ok THEN columns ELSE project_columns_
     /\ \A filter \in RebuildFilters : Filter(filter) =>
          /\ status'.ok <=> (/\ ~SomeRefUnresolved(filter, schema_)
                             /\ Bind(filter, schema_).ok)
          /\ project_columns_' = project_columns_
     /\ Finish =>
          /\ project_columns_ # <<>> =>
               FieldNames(Schema(scanner'.scan_options)) = project_columns_
          /\ project_columns_ = <<>> => Schema(scanner'.scan_options) = schema_]_vars

\* C27: after Project(a) and a Finish, Filter(b = a) and Project(b, a) both
\* succeeded and a second Finish narrowed to (b, a).
C27_Witness ==
  /\ earlier.made /\ scanner.made
  /\ FieldNames(Schema(earlier.scan_options)) = <<"a">>
  /\ earlier.scan_options.filter = Bind(LiteralTrue, schema_).value
  /\ FieldNames(Schema(scanner.scan_options)) = <<"b", "a">>
  /\ scanner.scan_options.filter = Bind(Call(<<FieldRef("b"), FieldRef("a")>>), schema_).value
  /\ project_columns_ = <<"b", "a">>
  /\ status.ok

====
